---- MODULE Spec2Model ----
(***************************************************************************)
(* Model of src/packet.rs (rust-utp): the uTP packet codec.                *)
(*                                                                         *)
(* A byte is an integer in 0..255, a buffer a sequence of bytes.  Buffer   *)
(* positions are zero-based as in the source; Read(b, i) is buf[i].        *)
(* The header struct is modelled by the integer value of each field, as    *)
(* the host holds it.  The host is little-endian (the tests of the source  *)
(* only pass there), so the memory image of a field is its little-endian   *)
(* byte string.  Field values stay below 2^31.                             *)
(***************************************************************************)
EXTENDS Integers, Sequences, FiniteSets, TLC

VARIABLES
    pkt,        \* the Packet the caller holds, or NoPacket
    origin,     \* how pkt came to be: built from new(), decoded from a buffer, decoded then set_sack
    buf,        \* the argument of the running (or last) Packet::decode call
    pc,         \* "idle", or the position inside Packet::decode: "walk"
    header,     \* decode's local `header`
    extensions, \* decode's local `extensions`
    idx,        \* decode's local `idx`
    kind,       \* decode's local `kind`
    ret,        \* the value the last call returned
    src,        \* where buf came from: the wire, or bytes() of a packet
    rd          \* the buffer positions the last step of decode read

vars == <<pkt, origin, buf, pc, header, extensions, idx, kind, ret, src, rd>>

----------------------------------------------------------------------------
(* Program constants *)

HEADER_SIZE == 20

SelectiveAck == 1

Data == 0
Fin == 1
State == 2
Reset == 3
Syn == 4

PacketType == {Data, Fin, State, Reset, Syn}

----------------------------------------------------------------------------
(* Bounds of the model *)

MaxRecords == 2      \* extension records in a received buffer
MaxPayload == 2      \* payload bytes in a received or built packet
MaxCut == 1          \* bytes a received buffer may lose at its end
MaxExtensions == 2   \* set_sack is called while the packet has fewer extensions

----------------------------------------------------------------------------
(* Bytes and integers *)

Pow2(n) == 2 ^ n

\* x as u8
AsU8(x) == x % 256

RECURSIVE BitOr(_, _)
BitOr(a, b) ==
    IF a = 0 THEN b
    ELSE IF b = 0 THEN a
    ELSE (IF a % 2 = 1 \/ b % 2 = 1 THEN 1 ELSE 0) + 2 * BitOr(a \div 2, b \div 2)

\* the i-th byte (0 = least significant) of v
ByteOf(v, i) == (v \div Pow2(8 * i)) % 256

\* the memory image of an n-byte unsigned integer on the little-endian host
MemBytes(v, n) == [i \in 1..n |-> ByteOf(v, i - 1)]

\* u16::to_be / u16::from_be and u32::to_be / u32::from_be on the little-endian host
SwapBytes(v, n) ==
    LET m == MemBytes(v, n)
        RECURSIVE Acc(_)
        Acc(i) == IF i > n THEN 0 ELSE m[i] * Pow2(8 * (n - i)) + Acc(i + 1)
    IN Acc(1)

\* buf[i], zero-based
Read(b, i) == b[i + 1]

\* buf[from..to], zero-based, `to` excluded
Slice(b, from, to) == SubSeq(b, from + 1, to)

InBounds(b, positions) == \A i \in positions : i < Len(b)

----------------------------------------------------------------------------
(* PacketHeader *)

\* macro u8_to_unsigned_be!(src, start, end, t)
U8ToUnsignedBe(b, start, end) ==
    LET RECURSIVE Acc(_)
        Acc(i) == IF i < 0 THEN 0
                  ELSE BitOr(Acc(i - 1), Read(b, start + i) * Pow2(i * 8))
    IN Acc(end - start)

PacketHeaderDecode(b) ==
    [ type_ver |-> Read(b, 0),
      extension |-> Read(b, 1),
      connection_id |-> U8ToUnsignedBe(b, 2, 3),
      timestamp_microseconds |-> U8ToUnsignedBe(b, 4, 7),
      timestamp_difference_microseconds |-> U8ToUnsignedBe(b, 8, 11),
      wnd_size |-> U8ToUnsignedBe(b, 12, 15),
      seq_nr |-> U8ToUnsignedBe(b, 16, 17),
      ack_nr |-> U8ToUnsignedBe(b, 18, 19) ]

\* PacketHeader::bytes: the memory image of the packed struct
HeaderBytes(h) ==
    <<h.type_ver, h.extension>>
        \o MemBytes(h.connection_id, 2)
        \o MemBytes(h.timestamp_microseconds, 4)
        \o MemBytes(h.timestamp_difference_microseconds, 4)
        \o MemBytes(h.wnd_size, 4)
        \o MemBytes(h.seq_nr, 2)
        \o MemBytes(h.ack_nr, 2)

HeaderLen(h) == HEADER_SIZE

GetVersion(h) == h.type_ver % 16

TypeNibble(h) == h.type_ver \div 16

\* PacketHeader::set_type
HeaderSetType(h, t) ==
    LET version == h.type_ver % 16
    IN [h EXCEPT !.type_ver = BitOr(AsU8(t * 16), version)]

----------------------------------------------------------------------------
(* Extension *)

Extension(ty, data) == [ty |-> ty, data |-> data]

\* mutant of ExtensionLen: the length byte is not counted
ExtensionDataLen(e) == Len(e.data)

ExtensionLen(e) == 1 + Len(e.data)

ExtensionToBytes(e) == <<AsU8(Len(e.data))>> \o e.data

----------------------------------------------------------------------------
(* Packet *)

NoPacket == [none |-> TRUE]

Packet(h, exts, payload) == [header |-> h, extensions |-> exts, payload |-> payload]

PacketNew ==
    Packet([ type_ver |-> BitOr(AsU8(Data * 16), 1),
             extension |-> 0,
             connection_id |-> 0,
             timestamp_microseconds |-> 0,
             timestamp_difference_microseconds |-> 0,
             wnd_size |-> 0,
             seq_nr |-> 0,
             ack_nr |-> 0 ],
           <<>>, <<>>)

\* the body of Packet::set_sack once its two assertions passed
PacketSetSack(p, bv) ==
    [p EXCEPT !.extensions = Append(@, Extension(SelectiveAck, bv)),
              !.header.extension = BitOr(@, SelectiveAck)]

SackPrecondition(bv) == Len(bv) >= 4 /\ Len(bv) % 4 = 0

\* the `while let` loop of Packet::bytes
RECURSIVE ExtensionChainBytes(_)
ExtensionChainBytes(exts) ==
    IF exts = <<>> THEN <<>>
    ELSE LET next == IF Len(exts) = 1 THEN 0 ELSE exts[2].ty
         IN <<next>> \o ExtensionToBytes(exts[1]) \o ExtensionChainBytes(Tail(exts))

PacketBytes(p) == HeaderBytes(p.header) \o ExtensionChainBytes(p.extensions) \o p.payload

RECURSIVE ExtLenFold(_, _)
ExtLenFold(acc, exts) ==
    IF exts = <<>> THEN acc
    ELSE ExtLenFold(acc + ExtensionLen(exts[1]) + 1, Tail(exts))

PacketLen(p) == HeaderLen(p.header) + Len(p.payload) + ExtLenFold(0, p.extensions)

----------------------------------------------------------------------------
(* Packet::decode, one definition per check of the source *)

\* mutant of TooShort: off by one
TooShortOffByOne(b) == Len(b) < HEADER_SIZE - 1

\* line 282
TooShort(b) == Len(b) < HEADER_SIZE

\* mutant of VersionUnsupported: only newer versions are refused
VersionNewerOnly(h) == GetVersion(h) > 1

\* line 287
VersionUnsupported(h) == GetVersion(h) # 1

\* line 295
MissingExtension(b, h) == Len(b) = HEADER_SIZE /\ h.extension # 0

\* line 300
WalkContinues(b, i, k) == i < Len(b) /\ k # 0

\* mutant of NoRecordHead: one byte is taken to be enough
NoRecordHeadOffByOne(b, i) == Len(b) < i + 1

\* line 301
NoRecordHead(b, i) == Len(b) < i + 2

\* line 312
BadExtensionLength(b, len, payload_start) ==
    len = 0 \/ len % 4 # 0 \/ payload_start > Len(b)

\* mutant of KnownKind: every record is taken for a SelectiveAck
AnyKind(k) == k # 0

\* line 316
KnownKind(k) == k = SelectiveAck

\* line 324
NextKind(b, i) == Read(b, i)

\* mutant of PendingExtension: the check after the loop is missing
NothingPending(k) == FALSE

\* line 328
PendingExtension(k) == k # 0

\* lines 332-343
Payload(b, i) == IF i < Len(b) THEN Slice(b, i, Len(b)) ELSE <<>>

Returned(op, err, val) == [op |-> op, err |-> err, val |-> val]

Ok(op, val) == Returned(op, "", val)

Err(e) == Returned("decode", e, NoPacket)

\* an indexing of buf outside its bounds panics
Panic == Returned("decode", "panic", NoPacket)

NoHeader == [none |-> TRUE]

----------------------------------------------------------------------------
(* Inputs *)

\* type_ver bytes: State v1; type 5 (out of range) v1; State v0
TypeVers == {33, 81, 32}

\* extension type ids on the wire: none, SelectiveAck, an unrecognized one
Kinds == {0, SelectiveAck, 2}

\* length bytes a received record may carry
LenBytes == {0, 4, 6}

\* bytes 2..19 of test_packet_decode's buffer
FieldBytes == <<65, 168, 153, 47, 208, 42, 159, 74, 38, 33, 0, 16, 0, 0, 58, 242, 108, 121>>

PayloadBytes == <<72, 101, 108, 108, 111, 10>>

Payloads == {SubSeq(PayloadBytes, 1, n) : n \in 0..MaxPayload}

\* the data of the n-th record of a received chain
RecordData(n) == [j \in 1..4 |-> 16 * n + j]

\* well-formed chains of n records
RECURSIVE GoodChains(_)
GoodChains(n) ==
    IF n = 0 THEN {<<>>}
    ELSE {c \o <<next, 4>> \o RecordData(n) : c \in GoodChains(n - 1), next \in Kinds}

\* chains of up to n records: well-formed, or with any of LenBytes as the last length byte
Chains(n) ==
    UNION {GoodChains(m) : m \in 0..n}
        \cup UNION {{c \o <<next, len>> \o RecordData(m) :
                        c \in GoodChains(m - 1), next \in Kinds, len \in LenBytes \ {4}} :
                    m \in 1..n}

\* State packets carry any chain; the other type_ver bytes come with chains of
\* at most one record (the walk never looks at the type_ver byte)
Datagrams ==
    {<<tv, ext>> \o FieldBytes \o c \o p :
        tv \in {33}, ext \in Kinds, c \in Chains(MaxRecords), p \in Payloads}
    \cup
    {<<tv, ext>> \o FieldBytes \o c \o p :
        tv \in TypeVers, ext \in Kinds, c \in Chains(1), p \in Payloads}

\* what arrives: a datagram, one that lost its last bytes, or a fragment of a header
InputBuffers ==
    {SubSeq(d, 1, Len(d) - cut) : d \in Datagrams, cut \in 0..MaxCut}
        \cup {SubSeq(d, 1, n) : d \in Datagrams, n \in 0..(HEADER_SIZE - 1)}

Bitmaps == {[j \in 1..4 |-> 240 + j], [j \in 1..256 |-> j % 256]}

\* each value and its byte swap stay below 2^31
SetterValues ==
    [ seq_nr |-> 15090, ack_nr |-> 17096, connection_id |-> 16808,
      wnd_size |-> 1048576, timestamp_microseconds |-> 305419896,
      timestamp_difference_microseconds |-> 1707040058 ]

FieldWidth ==
    [ seq_nr |-> 2, ack_nr |-> 2, connection_id |-> 2,
      wnd_size |-> 4, timestamp_microseconds |-> 4,
      timestamp_difference_microseconds |-> 4 ]

FieldOrder ==
    << "timestamp_microseconds", "timestamp_difference_microseconds", "connection_id",
       "seq_nr", "ack_nr", "wnd_size" >>

----------------------------------------------------------------------------
(* State after Packet::new() *)

Init ==
    /\ pkt = PacketNew
    /\ origin = [k |-> "new"]
    /\ buf = <<>>
    /\ pc = "idle"
    /\ header = NoHeader
    /\ extensions = <<>>
    /\ idx = 0
    /\ kind = 0
    /\ ret = Ok("new", PacketNew)
    /\ src = [k |-> "none"]
    /\ rd = {}

Holding == pc = "idle" /\ pkt # NoPacket

\* the packet is being filled in field by field: header first, then payload, then acks
Fresh == Holding /\ origin.k = "new" /\ pkt.extensions = <<>> /\ pkt.payload = <<>>

----------------------------------------------------------------------------
(* Packet::decode *)

\* a call that has not returned yet
Pending == Returned("pending", "", NoPacket)

\* the return of a method without a result
Done(op) == Returned(op, "", NoPacket)

\* decode returns r: its locals are dropped and the caller binds the result
Return(r, reads) ==
    /\ pc' = "idle"
    /\ ret' = r
    /\ rd' = reads
    /\ pkt' = r.val
    /\ origin' = IF r.err = "" THEN [k |-> "decoded", b |-> buf'] ELSE [k |-> "none"]
    /\ header' = NoHeader
    /\ extensions' = <<>>
    /\ idx' = 0
    /\ kind' = 0

\* lines 282-297: the length check, the header, the version check, the bare-header check
DecodeEnter(b, from) ==
    /\ pc = "idle"
    /\ buf' = b
    /\ src' = from
    /\ IF TooShort(b) THEN Return(Err("InvalidPacketLength"), {})
       ELSE IF ~InBounds(b, 0..(HEADER_SIZE - 1)) THEN Return(Panic, 0..(HEADER_SIZE - 1))
       ELSE LET h == PacketHeaderDecode(b)
            IN IF VersionUnsupported(h)
                    THEN Return(Err("UnsupportedVersion"), 0..(HEADER_SIZE - 1))
               ELSE IF MissingExtension(b, h)
                    THEN Return(Err("InvalidExtensionLength"), 0..(HEADER_SIZE - 1))
               ELSE /\ pc' = "walk"
                    /\ header' = h
                    /\ extensions' = <<>>
                    /\ idx' = HEADER_SIZE
                    /\ kind' = h.extension
                    /\ ret' = Pending
                    /\ rd' = 0..(HEADER_SIZE - 1)
                    /\ pkt' = NoPacket
                    /\ origin' = [k |-> "none"]

\* a datagram arrives and is decoded; a run handles one datagram or builds one packet
DecodeWire ==
    /\ pkt = PacketNew /\ origin.k = "new" /\ src.k = "none"
    /\ \E b \in InputBuffers : DecodeEnter(b, [k |-> "wire"])

\* the bytes() of the packet held are decoded
DecodeBytes ==
    /\ Holding
    /\ ret.op = "bytes"
    /\ DecodeEnter(ret.val, [k |-> "bytes", of |-> pkt, origin |-> origin])

\* lines 300-326: one iteration of the chain walk
DecodeLoop ==
    /\ pc = "walk"
    /\ WalkContinues(buf, idx, kind)
    /\ UNCHANGED <<buf, src>>
    /\ IF NoRecordHead(buf, idx) THEN Return(Err("InvalidPacketLength"), {})
       ELSE IF ~InBounds(buf, {idx + 1}) THEN Return(Panic, {idx + 1})
       ELSE LET len == Read(buf, idx + 1)
                extension_start == idx + 2
                payload_start == extension_start + len
                reads == {idx + 1, idx} \cup
                         (IF KnownKind(kind) THEN extension_start..(payload_start - 1) ELSE {})
            IN IF BadExtensionLength(buf, len, payload_start)
                    THEN Return(Err("InvalidExtensionLength"), {idx + 1})
               ELSE IF ~InBounds(buf, reads) THEN Return(Panic, reads)
               ELSE /\ extensions' =
                          IF KnownKind(kind)
                          THEN Append(extensions,
                                      Extension(SelectiveAck,
                                                Slice(buf, extension_start, payload_start)))
                          ELSE extensions
                    /\ kind' = NextKind(buf, idx)
                    /\ idx' = idx + len + 2
                    /\ rd' = reads
                    /\ UNCHANGED <<pc, header, ret, pkt, origin>>

\* lines 327-349: the pending-extension check, the payload, the result
DecodeFinish ==
    /\ pc = "walk"
    /\ ~WalkContinues(buf, idx, kind)
    /\ UNCHANGED <<buf, src>>
    /\ IF PendingExtension(kind) THEN Return(Err("InvalidPacketLength"), {})
       ELSE Return(Ok("decode", Packet(header, extensions, Payload(buf, idx))),
                   idx..(Len(buf) - 1))

----------------------------------------------------------------------------
(* The other operations of Packet *)

Call(p, o, r) ==
    /\ pkt' = p
    /\ origin' = o
    /\ ret' = r
    /\ UNCHANGED <<buf, pc, header, extensions, idx, kind, src, rd>>

\* Packet::set_type
SetType ==
    /\ Fresh
    /\ \E t \in PacketType : Call([pkt EXCEPT !.header = HeaderSetType(@, t)], origin, Done("set_type"))

\* make_setter!: set_seq_nr, set_ack_nr, set_connection_id, set_wnd_size,
\* set_timestamp_microseconds, set_timestamp_difference_microseconds
\* The fields are set in the order of test_packet_encode, each once.
SetField ==
    /\ Fresh
    /\ \E i \in 1..Len(FieldOrder) :
          LET f == FieldOrder[i]
          IN /\ \A j \in 1..Len(FieldOrder) : (pkt.header[FieldOrder[j]] # 0) <=> (j < i)
             /\ Call([pkt EXCEPT !.header[f] = SwapBytes(SetterValues[f], FieldWidth[f])],
                     origin, Done("set_field"))

\* pkt.payload = payload
SetPayload ==
    /\ Fresh
    /\ \E p \in Payloads \ {<<>>} : Call([pkt EXCEPT !.payload = p], origin, Done("set_payload"))

\* Packet::set_sack
SetSack ==
    /\ Holding
    /\ src.k # "bytes"
    /\ Len(pkt.extensions) < MaxExtensions
    /\ \E bv \in Bitmaps :
          /\ SackPrecondition(bv)
          /\ Call(PacketSetSack(pkt, bv),
                  IF origin.k = "new" THEN origin ELSE [k |-> "patched"],
                  Done("set_sack"))

\* Packet::bytes
Bytes ==
    /\ Holding
    /\ Call(pkt, origin, Ok("bytes", PacketBytes(pkt)))

\* Packet::len
LenCall ==
    /\ Holding
    /\ Call(pkt, origin, Ok("len", PacketLen(pkt)))

\* transmute of the type nibble to PacketType: defined for 0..4; for 5..15 the
\* behaviour is undefined, and the build yields the raw value as a PacketType
\* or, trusting the enum's range, any of its variants
GetTypeOutcomes(h) ==
    IF TypeNibble(h) \in PacketType THEN {TypeNibble(h)}
    ELSE PacketType \cup {TypeNibble(h)}

\* Packet::get_type
GetType ==
    /\ Holding
    /\ \E v \in GetTypeOutcomes(pkt.header) : Call(pkt, origin, Ok("get_type", v))

Next ==
    \/ DecodeWire
    \/ DecodeBytes
    \/ DecodeLoop
    \/ DecodeFinish
    \/ SetType
    \/ SetField
    \/ SetPayload
    \/ SetSack
    \/ Bytes
    \/ LenCall
    \/ GetType

Spec == Init /\ [][Next]_vars

----------------------------------------------------------------------------
(* The reference chain walk the claims compare decode with *)

DecodeReturned == pc = "idle" /\ ret.op = "decode"

Accepted == DecodeReturned /\ ret.err = ""

WireVersion(b) == b[1] % 16

\* The walk from position i (zero-based) with carried type k: whether it ends
\* with no type pending, where it ends, and the records it passed, each with
\* the type carried to it.
RECURSIVE RefWalk(_, _, _)
RefWalk(b, i, k) ==
    IF i < Len(b) /\ k # 0
    THEN IF Len(b) - i < 2 THEN [ok |-> FALSE, end |-> i, recs |-> <<>>]
         ELSE LET len == b[i + 2]
              IN IF len = 0 \/ len % 4 # 0 \/ i + 2 + len > Len(b)
                 THEN [ok |-> FALSE, end |-> i, recs |-> <<>>]
                 ELSE LET rest == RefWalk(b, i + len + 2, b[i + 1])
                      IN [ ok |-> rest.ok,
                           end |-> rest.end,
                           recs |-> <<[kind |-> k, data |-> SubSeq(b, i + 3, i + 2 + len)]>>
                                        \o rest.recs ]
    ELSE [ok |-> k = 0, end |-> i, recs |-> <<>>]

RefChain(b) == RefWalk(b, 20, b[2])

RefAccepts(b) == Len(b) >= 20 /\ WireVersion(b) = 1 /\ RefChain(b).ok

IsSack(r) == r.kind = 1

RECURSIVE SacksOf(_)
SacksOf(recs) ==
    IF recs = <<>> THEN <<>>
    ELSE (IF IsSack(recs[1]) THEN <<[ty |-> 1, data |-> recs[1].data]>> ELSE <<>>)
             \o SacksOf(Tail(recs))

OnlyRecognized(b) == \A n \in 1..Len(RefChain(b).recs) : IsSack(RefChain(b).recs[n])

RECURSIVE WireSize(_)
WireSize(exts) == IF exts = <<>> THEN 0 ELSE 2 + Len(exts[1].data) + WireSize(Tail(exts))

----------------------------------------------------------------------------
(* Claims *)

\* C1 (as claimed): when bytes() of a packet that decode returned for an accepted
\* buffer is decoded again, decode succeeds and returns a packet equal to it in
\* header, extension list and payload.
C1_RoundTripDecoded ==
    (DecodeReturned /\ src.k = "bytes" /\ src.origin.k = "decoded")
        => (ret.err = "" /\ ret.val = src.of)

\* C2 (as claimed): bytes() of a packet that decode returned for buffer b is b,
\* byte for byte.
C2_ReencodeIsInput ==
    (pc = "idle" /\ ret.op = "bytes" /\ origin.k = "decoded") => ret.val = origin.b

\* C3: decode reads only positions below buf.len(), returns Ok or one of the
\* three ParseErrors, and terminates: every iteration of the walk either returns
\* or moves idx forward, and idx never passes buf.len().
C3_State ==
    /\ InBounds(buf, rd)
    /\ pc = "walk" => idx <= Len(buf)
    /\ DecodeReturned =>
          /\ ret.err \in {"", "InvalidPacketLength", "InvalidExtensionLength",
                          "UnsupportedVersion"}
          /\ (ret.err = "") <=> (ret.val # NoPacket)

C3_Progress == pc = "walk" => (pc' = "idle" \/ (pc' = "walk" /\ idx' > idx /\ buf' = buf))

C3_DecodeTotalInBounds == []C3_State /\ [][C3_Progress]_vars

\* C3 witness: a 21-byte buffer that declares an extension was rejected: the one
\* byte after the header cannot hold a record head, and buf[21] was not read.
C3_Witness ==
    /\ DecodeReturned
    /\ Len(buf) = HEADER_SIZE + 1
    /\ WireVersion(buf) = 1
    /\ buf[2] # 0
    /\ ret.err = "InvalidPacketLength"

\* C4: a buffer shorter than 20 bytes fails with InvalidPacketLength whatever it
\* holds; a buffer of 20 bytes or more with a version other than 1 fails with
\* UnsupportedVersion whatever its chain holds; so an extension-chain error is
\* returned only for a buffer that passed both checks.
C4_LengthFloorAndPrecedence ==
    DecodeReturned =>
        /\ Len(buf) < 20 => ret.err = "InvalidPacketLength"
        /\ (Len(buf) >= 20 /\ WireVersion(buf) # 1) => ret.err = "UnsupportedVersion"
        /\ ret.err = "InvalidExtensionLength" => (Len(buf) >= 20 /\ WireVersion(buf) = 1)

\* C4 witness: a fragment of a header whose version is not 1 and whose extension
\* byte is not 0 was rejected with InvalidPacketLength.
C4_Witness ==
    /\ DecodeReturned
    /\ Len(buf) >= 2 /\ Len(buf) < 20
    /\ WireVersion(buf) # 1
    /\ buf[2] # 0
    /\ ret.err = "InvalidPacketLength"

\* C5 (as claimed): any buffer whose first byte's low nibble is not 1 fails with
\* UnsupportedVersion.
C5_VersionGateAnyBuffer ==
    (DecodeReturned /\ Len(buf) >= 1 /\ WireVersion(buf) # 1)
        => ret.err = "UnsupportedVersion"

\* C5 (amended): any buffer of at least 20 bytes whose first byte's low nibble
\* is not 1 fails with UnsupportedVersion.
C5_VersionGate ==
    (DecodeReturned /\ Len(buf) >= 20 /\ WireVersion(buf) # 1)
        => ret.err = "UnsupportedVersion"

\* C5 witness: a buffer with a version other than 1 and a well-formed record
\* after the header was rejected with UnsupportedVersion.
C5_Witness ==
    /\ DecodeReturned
    /\ Len(buf) >= 26
    /\ WireVersion(buf) # 1
    /\ buf[2] = 1 /\ buf[22] = 4
    /\ ret.err = "UnsupportedVersion"

\* C6: decode succeeds exactly when the buffer has 20 bytes or more, version 1,
\* and the reference walk of its chain ends with no type pending.
C6_AcceptIffReferenceWalk == DecodeReturned => ((ret.err = "") <=> RefAccepts(buf))

\* C6 witness: a buffer whose only record is well-formed and names a next type,
\* with nothing after it, was rejected.
C6_Witness ==
    /\ DecodeReturned
    /\ Len(buf) = 26
    /\ WireVersion(buf) = 1
    /\ buf[2] # 0 /\ buf[21] # 0 /\ buf[22] = 4
    /\ ret.err = "InvalidPacketLength"

C8_HeaderNamesFirstExtension ==
    (pc = "idle" /\ ret.op = "set_sack") =>
        /\ pkt.extensions[Len(pkt.extensions)].ty = SelectiveAck
        /\ pkt.header.extension = pkt.extensions[1].ty

\* C9 (as claimed): get_type on a header whose type nibble is 5..15 fails, and
\* get_type never returns a value outside PacketType.
C9_GetTypeChecked ==
    (pc = "idle" /\ ret.op = "get_type") =>
        IF TypeNibble(pkt.header) \in 0..4
        THEN ret.err = "" /\ ret.val = TypeNibble(pkt.header)
        ELSE ret.err # ""

\* C10: len() is 20 + payload.len() + the sum over the extensions of
\* 2 + data.len(); bytes() returns that many bytes; and for a packet decoded
\* from a buffer whose chain holds only recognized records it is the buffer's
\* length.
C10_LengthAgreement ==
    /\ (pc = "idle" /\ ret.op = "len") =>
          /\ ret.val = 20 + Len(pkt.payload) + WireSize(pkt.extensions)
          /\ ret.val = Len(PacketBytes(pkt))
          /\ (origin.k = "decoded" /\ OnlyRecognized(origin.b)) => ret.val = Len(origin.b)
    /\ (pc = "idle" /\ ret.op = "bytes") => Len(ret.val) = PacketLen(pkt)

\* C10 witness: len() was called on a packet decoded from a buffer with a
\* SelectiveAck record and payload.
C10_Witness ==
    /\ pc = "idle" /\ ret.op = "len"
    /\ origin.k = "decoded"
    /\ OnlyRecognized(origin.b)
    /\ Len(pkt.extensions) >= 1
    /\ pkt.payload # <<>>
    /\ ret.val = Len(origin.b)

\* the zero-based position in bytes() of the length byte of extension n
LengthBytePosition(exts, n) == HEADER_SIZE + WireSize(SubSeq(exts, 1, n - 1)) + 1

\* C11 (as claimed): for a packet built from Packet::new() by set_type, the
\* field setters, a payload and set_sack calls with valid bitmaps of any length,
\* the length byte bytes() emits for each extension is that extension's data
\* length, and decoding bytes() succeeds and returns the same header, extension
\* list and payload.
C11_RoundTripBuilt ==
    /\ (pc = "idle" /\ ret.op = "bytes" /\ origin.k = "new") =>
          \A n \in 1..Len(pkt.extensions) :
              ret.val[LengthBytePosition(pkt.extensions, n) + 1] = Len(pkt.extensions[n].data)
    /\ (DecodeReturned /\ src.k = "bytes" /\ src.origin.k = "new") =>
          (ret.err = "" /\ ret.val = src.of)

====
